---- MODULE Spec2Model ----
(***************************************************************************)
(* Object Coordinate Converter: from a detection's pixel to GPS.           *)
(*                                                                         *)
(* The four stages of src/object_gps_position.py (compute_K,               *)
(* compute_camera_rotation, compute_object_world_coords,                   *)
(* compute_object_gps_coords) and the button handler of src/app.py that    *)
(* chains them.                                                            *)
(*                                                                         *)
(* Numbers.  The program computes in IEEE-754 binary floating point.  The  *)
(* model keeps that arithmetic and scales its precision down: a number is  *)
(* m * 2^e with a mantissa of Precision bits, every operation returns the  *)
(* exact result rounded to nearest (ties to even), and a division of an    *)
(* array element by zero yields inf or nan as numpy does.  The exponent    *)
(* is unbounded (no overflow or underflow) and zero carries no sign.       *)
(***************************************************************************)
EXTENDS Integers, Sequences, FiniteSets, TLC

\* Mantissa width of the modelled floating-point format (53 in the program).
Precision == 6

\* Fractional bits of the fixed-point evaluation of the elementary
\* functions (sin, arctan): enough guard bits below the mantissa.
FixBits == Precision + 7

RECURSIVE Pow2(_)
Pow2(n) == IF n <= 0 THEN 1 ELSE 2 * Pow2(n - 1)

Abs(n) == IF n < 0 THEN -n ELSE n

Sgn(n) == IF n < 0 THEN -1 ELSE IF n > 0 THEN 1 ELSE 0

----------------------------------------------------------------------------
(* Floating-point values *)

Num(m, e) == [k |-> "num", m |-> m, e |-> e]
Zero == Num(0, 0)
Inf(s) == [k |-> "inf", m |-> s, e |-> 0]
NaN == [k |-> "nan", m |-> 0, e |-> 0]

IsNum(a) == a.k = "num"
IsNaN(a) == a.k = "nan"
IsInf(a) == a.k = "inf"
IsZero(a) == a.k = "num" /\ a.m = 0

\* The value n/d * 2^e (d > 0) rounded to the nearest number with a
\* Precision-bit mantissa, ties to the even mantissa.
RECURSIVE Norm(_, _, _)
Norm(n, d, e) ==
  IF n = 0 THEN Zero
  ELSE IF Abs(n) >= Pow2(Precision) * d THEN Norm(n, 2 * d, e + 1)
  ELSE IF Abs(n) < Pow2(Precision - 1) * d THEN Norm(2 * n, d, e - 1)
  ELSE LET q == Abs(n) \div d
           r == Abs(n) % d
           up == (2 * r > d) \/ (2 * r = d /\ q % 2 = 1)
           m == IF up THEN q + 1 ELSE q
       IN IF m = Pow2(Precision) THEN Num(Sgn(n) * Pow2(Precision - 1), e + 1)
          ELSE Num(Sgn(n) * m, e)

\* A literal: the float nearest to the rational n/d.
Fl(n, d) == Norm(n, d, 0)

FSign(a) == IF IsInf(a) THEN a.m ELSE Sgn(a.m)

FNeg(a) == IF IsNum(a) THEN Num(-a.m, a.e) ELSE IF IsInf(a) THEN Inf(-a.m) ELSE NaN

FMul(a, b) ==
  IF IsNaN(a) \/ IsNaN(b) THEN NaN
  ELSE IF IsInf(a) \/ IsInf(b) THEN
         IF IsZero(a) \/ IsZero(b) THEN NaN ELSE Inf(FSign(a) * FSign(b))
  ELSE Norm(a.m * b.m, 1, a.e + b.e)

\* numpy's true division of float64 values: x/0 is inf or nan, no exception.
FDiv(a, b) ==
  IF IsNaN(a) \/ IsNaN(b) THEN NaN
  ELSE IF IsInf(a) THEN (IF IsInf(b) THEN NaN
                         ELSE Inf(a.m * (IF FSign(b) < 0 THEN -1 ELSE 1)))
  ELSE IF IsInf(b) THEN Zero
  ELSE IF IsZero(b) THEN (IF IsZero(a) THEN NaN ELSE Inf(Sgn(a.m)))
  ELSE Norm(a.m * Sgn(b.m), Abs(b.m), a.e - b.e)

FAdd(a, b) ==
  IF IsNaN(a) \/ IsNaN(b) THEN NaN
  ELSE IF IsInf(a) THEN (IF IsInf(b) /\ b.m # a.m THEN NaN ELSE a)
  ELSE IF IsInf(b) THEN b
  ELSE IF IsZero(a) THEN b
  ELSE IF IsZero(b) THEN a
  ELSE IF a.e - b.e > Precision + 2 THEN a
  ELSE IF b.e - a.e > Precision + 2 THEN b
  ELSE LET e == IF a.e < b.e THEN a.e ELSE b.e
       IN Norm(a.m * Pow2(a.e - e) + b.m * Pow2(b.e - e), 1, e)

FSub(a, b) == FAdd(a, FNeg(b))

\* Exact comparison of two finite values: the sign of a - b.
FCmp(a, b) ==
  LET e == IF a.e < b.e THEN a.e ELSE b.e
  IN IF IsZero(a) THEN -Sgn(b.m)
     ELSE IF IsZero(b) THEN Sgn(a.m)
     ELSE IF Sgn(a.m) # Sgn(b.m) THEN Sgn(a.m)
     ELSE IF a.e - b.e > Precision THEN Sgn(a.m)
     ELSE IF b.e - a.e > Precision THEN -Sgn(a.m)
     ELSE Sgn(a.m * Pow2(a.e - e) - b.m * Pow2(b.e - e))

FAbs(a) == IF IsNum(a) THEN Num(Abs(a.m), a.e) ELSE IF IsInf(a) THEN Inf(1) ELSE NaN

----------------------------------------------------------------------------
(* Elementary functions of numpy (np.sqrt, np.sin, np.cos, np.arcsin,      *)
(* np.arctan2, np.radians, np.degrees).  Each is evaluated in fixed point  *)
(* with FixBits fractional bits and the result rounded to the float        *)
(* format, so that, like the library's, it is accurate to about one unit   *)
(* in the last place of the mantissa.                                       *)

SC == Pow2(FixBits)

\* n/d rounded to the nearest integer (d > 0), halves away from zero.
RDiv(n, d) == Sgn(n) * ((2 * Abs(n) + d) \div (2 * d))

\* Largest s with s*s <= n.
RECURSIVE ISqrtFrom(_, _, _)
ISqrtFrom(n, lo, hi) ==
  IF lo >= hi THEN lo
  ELSE LET mid == (lo + hi + 1) \div 2
       IN IF mid * mid <= n THEN ISqrtFrom(n, mid, hi) ELSE ISqrtFrom(n, lo, mid - 1)

ISqrt(n) == ISqrtFrom(n, 0, Pow2(15))

ToFix(a) ==
  IF a.e + FixBits >= 0 THEN a.m * Pow2(a.e + FixBits)
  ELSE IF a.e + FixBits < -(Precision + 1) THEN 0
  ELSE RDiv(a.m, Pow2(-(a.e + FixBits)))

FromFix(x) == Norm(x, 1, -FixBits)

PiFix == RDiv(355 * SC, 113)

\* |a| < 2^-(Precision \div 2 + 1): sin, arcsin and arctan of a round to a.
IsTiny(a) == IsNum(a) /\ (a.m = 0 \/ a.e + Precision <= -(Precision \div 2 + 1))

\* The Taylor polynomial of sin, for |x| <= pi/2.
SinSeries(x) ==
  LET x2 == RDiv(x * x, SC)
      t3 == RDiv(x * x2, 6 * SC)
      t5 == RDiv(t3 * x2, 20 * SC)
      t7 == RDiv(t5 * x2, 42 * SC)
      t9 == RDiv(t7 * x2, 72 * SC)
      t11 == RDiv(t9 * x2, 110 * SC)
  IN x - t3 + t5 - t7 + t9 - t11

\* sin of any fixed-point angle: reduce modulo 2 pi to (-pi, pi], then fold
\* onto [-pi/2, pi/2].
SinFix(x) ==
  LET r == x % (2 * PiFix)
      y == IF r > PiFix THEN r - 2 * PiFix ELSE r
      z == IF 2 * y > PiFix THEN PiFix - y
           ELSE IF 2 * y < -PiFix THEN -PiFix - y ELSE y
  IN SinSeries(z)

np_sin(a) ==
  IF ~IsNum(a) THEN NaN
  ELSE IF IsTiny(a) THEN a
  ELSE FromFix(SinFix(ToFix(a)))

np_cos(a) ==
  IF ~IsNum(a) THEN NaN
  ELSE FromFix(SinFix(ToFix(a) + RDiv(PiFix, 2)))

\* The Taylor polynomial of arctan, for |t| <= tan(pi/8).
AtanSeries(t) ==
  LET t2 == RDiv(t * t, SC)
      t3 == RDiv(t * t2, SC)
      t5 == RDiv(t3 * t2, SC)
      t7 == RDiv(t5 * t2, SC)
      t9 == RDiv(t7 * t2, SC)
      t11 == RDiv(t9 * t2, SC)
  IN t - RDiv(t3, 3) + RDiv(t5, 5) - RDiv(t7, 7) + RDiv(t9, 9) - RDiv(t11, 11)

\* arctan of t in [0, 1]: above tan(pi/8) use pi/4 + arctan((t-1)/(t+1)).
AtanFix(t) ==
  IF 1000 * t > 414 * SC
  THEN RDiv(PiFix, 4) + AtanSeries(RDiv((t - SC) * SC, t + SC))
  ELSE AtanSeries(t)

\* The angle in [0, pi/2] of the point (x, y), x >= 0, y >= 0, not both 0,
\* given as integers on a common scale.
AngleFix(y, x) ==
  IF y <= x THEN AtanFix(RDiv(y * SC, x))
  ELSE RDiv(PiFix, 2) - AtanFix(RDiv(x * SC, y))

np_sqrt(a) ==
  IF IsNaN(a) THEN NaN
  ELSE IF IsInf(a) THEN (IF a.m > 0 THEN a ELSE NaN)
  ELSE IF a.m < 0 THEN NaN
  ELSE IF a.m = 0 THEN Zero
  ELSE LET odd == a.e % 2 = 1
           m1 == IF odd THEN 2 * a.m ELSE a.m
           e1 == IF odd THEN a.e - 1 ELSE a.e
           k == (Precision + 4) \div 2
           m2 == m1 * Pow2(2 * k)
           s == ISqrt(m2)
           sticky == IF s * s = m2 THEN 0 ELSE 1
       IN Norm(2 * s + sticky, 2, (e1 - 2 * k) \div 2)

np_arcsin(a) ==
  IF ~IsNum(a) THEN NaN
  ELSE IF IsTiny(a) THEN a
  ELSE IF FCmp(FAbs(a), Num(1, 0)) > 0 THEN NaN
  ELSE LET v == Abs(ToFix(a))
           c == ISqrt(SC * SC - v * v)
           r == FromFix(AngleFix(v, c))
       IN IF a.m < 0 THEN FNeg(r) ELSE r

\* Multiples of pi/4 as floats.
PiQuarters(n) == FromFix(RDiv(n * PiFix, 4))

np_arctan2(y, x) ==
  IF IsNaN(y) \/ IsNaN(x) THEN NaN
  ELSE IF IsInf(y) THEN
         LET q == IF IsInf(x) THEN (IF x.m > 0 THEN 1 ELSE 3) ELSE 2
         IN IF y.m > 0 THEN PiQuarters(q) ELSE FNeg(PiQuarters(q))
  ELSE IF IsInf(x) THEN
         IF x.m > 0 THEN Zero
         ELSE IF y.m < 0 THEN FNeg(PiQuarters(4)) ELSE PiQuarters(4)
  ELSE IF y.m = 0 THEN (IF x.m < 0 THEN PiQuarters(4) ELSE Zero)
  ELSE IF x.m = 0 THEN (IF y.m > 0 THEN PiQuarters(2) ELSE FNeg(PiQuarters(2)))
  ELSE LET ay == FAbs(y)
           ax == FAbs(x)
           t == FDiv(ay, ax)
           u == FDiv(ax, ay)
           a == IF IsTiny(t) THEN (IF x.m > 0 THEN t ELSE FSub(PiQuarters(4), t))
                ELSE IF IsTiny(u) THEN (IF x.m > 0 THEN FSub(PiQuarters(2), u)
                                        ELSE FAdd(PiQuarters(2), u))
                ELSE LET e == IF ay.e < ax.e THEN ay.e ELSE ax.e
                         r == AngleFix(ay.m * Pow2(ay.e - e), ax.m * Pow2(ax.e - e))
                     IN FromFix(IF x.m > 0 THEN r ELSE PiFix - r)
       IN IF y.m < 0 THEN FNeg(a) ELSE a

\* np.pi in the float format.
PI == Fl(355, 113)

\* np.radians / np.deg2rad: x * (pi / 180).
np_radians(x) == FMul(x, FDiv(PI, Fl(180, 1)))

\* np.degrees: x * (180 / pi).
np_degrees(x) == FMul(x, FDiv(Fl(180, 1), PI))

----------------------------------------------------------------------------
(* The four stages: src/object_gps_position.py *)

One == Num(Pow2(Precision - 1), 1 - Precision)

\* int -> float conversion of a Python int.
FromInt(n) == Fl(n, 1)

\* The error compute_K ends in, "none" when it returns: the true division
\* of two Python numbers raises ZeroDivisionError on a zero divisor.
compute_K_raises(focal_length, sensor_size, image_size) ==
  IF IsZero(sensor_size[1]) \/ IsZero(sensor_size[2]) THEN "ZeroDivisionError"
  ELSE "none"

\* compute_K with the ratio of lines 19-20 inverted (sensor over focal).
compute_K_inverted(focal_length, sensor_size, image_size) ==
  LET f_x == FMul(FDiv(sensor_size[1], focal_length[1]), FromInt(image_size[1]))
      f_y == FMul(FDiv(sensor_size[2], focal_length[2]), FromInt(image_size[2]))
      c_x == image_size[1] \div 2
      c_y == image_size[2] \div 2
  IN << <<f_x, Zero, FromInt(c_x)>>,
        <<Zero, f_y, FromInt(c_y)>>,
        <<Zero, Zero, One>> >>

\* compute_K with the principal point rounded up instead of floored.
compute_K_rounds_up(focal_length, sensor_size, image_size) ==
  LET f_x == FMul(FDiv(focal_length[1], sensor_size[1]), FromInt(image_size[1]))
      f_y == FMul(FDiv(focal_length[2], sensor_size[2]), FromInt(image_size[2]))
      c_x == (image_size[1] + 1) \div 2
      c_y == (image_size[2] + 1) \div 2
  IN << <<f_x, Zero, FromInt(c_x)>>,
        <<Zero, f_y, FromInt(c_y)>>,
        <<Zero, Zero, One>> >>

compute_K(focal_length, sensor_size, image_size) ==
  LET f_x == FMul(FDiv(focal_length[1], sensor_size[1]), FromInt(image_size[1]))
      f_y == FMul(FDiv(focal_length[2], sensor_size[2]), FromInt(image_size[2]))
      c_x == image_size[1] \div 2
      c_y == image_size[2] \div 2
  IN << <<f_x, Zero, FromInt(c_x)>>,
        <<Zero, f_y, FromInt(c_y)>>,
        <<Zero, Zero, One>> >>

\* compute_camera_rotation with the sine and the cosine exchanged.
compute_camera_rotation_swapped(a) ==
  LET alpha_rad == np_radians(a)
      cos_alpha == np_sin(alpha_rad)
      sin_alpha == np_cos(alpha_rad)
  IN << <<cos_alpha, Zero, sin_alpha>>,
        <<Zero, One, Zero>>,
        <<FNeg(sin_alpha), Zero, cos_alpha>> >>

compute_camera_rotation(a) ==
  LET alpha_rad == np_radians(a)
      cos_alpha == np_cos(alpha_rad)
      sin_alpha == np_sin(alpha_rad)
  IN << <<cos_alpha, Zero, sin_alpha>>,
        <<Zero, One, Zero>>,
        <<FNeg(sin_alpha), Zero, cos_alpha>> >>

Transpose(A) == [i \in 1..3 |-> [j \in 1..3 |-> A[j][i]]]

\* A dot product accumulated left to right.
Dot(u, v) == FAdd(FAdd(FMul(u[1], v[1]), FMul(u[2], v[2])), FMul(u[3], v[3]))

MatMul(A, B) == [i \in 1..3 |-> [j \in 1..3 |-> Dot(A[i], <<B[1][j], B[2][j], B[3][j]>>)]]

MatVec(A, v) == [i \in 1..3 |-> Dot(A[i], v)]

\* The division by a diagonal element in the triangular solve: the
\* reference BLAS divides, an optimised BLAS multiplies by the reciprocal.
TrsmDiv(x, u, blas) ==
  IF blas = "reference" THEN FDiv(x, u) ELSE FMul(x, FDiv(One, u))

\* Back substitution U x = b for an upper triangular U (dtrsm, column by
\* column from the last row up).
SolveUpper(U, b, blas) ==
  LET x3 == TrsmDiv(b[3], U[3][3], blas)
      b2 == FSub(b[2], FMul(x3, U[2][3]))
      b1 == FSub(b[1], FMul(x3, U[1][3]))
      x2 == TrsmDiv(b2, U[2][2], blas)
      b0 == FSub(b1, FMul(x2, U[1][2]))
      x1 == TrsmDiv(b0, U[1][1], blas)
  IN <<x1, x2, x3>>

\* np.linalg.inv raises LinAlgError("Singular matrix") when the LU
\* factorisation meets an exactly zero pivot.
linalg_inv_raises(A) ==
  IF IsZero(A[1][1]) \/ IsZero(A[2][2]) \/ IsZero(A[3][3]) THEN "LinAlgError"
  ELSE "none"

\* np.linalg.inv (LAPACK gesv on the identity) of an upper triangular
\* matrix: no row is exchanged, L is the identity, U is A.
linalg_inv(A, blas) ==
  LET c1 == SolveUpper(A, <<One, Zero, Zero>>, blas)
      c2 == SolveUpper(A, <<Zero, One, Zero>>, blas)
      c3 == SolveUpper(A, <<Zero, Zero, One>>, blas)
  IN [i \in 1..3 |-> <<c1[i], c2[i], c3[i]>>]

compute_object_world_coords_raises(coords, Kmat, R, altitude) ==
  linalg_inv_raises(Kmat)

\* The back-projected ray b of line 84, before it is scaled.
back_projected_ray(coords, Kmat, R, blas) ==
  MatVec(MatMul(Transpose(R), linalg_inv(Kmat, blas)),
         <<FromInt(coords[1]), FromInt(coords[2]), One>>)

\* compute_object_world_coords normalising by b[0] instead of b[-1].
compute_object_world_coords_first(coords, Kmat, R, altitude, blas) ==
  LET b == back_projected_ray(coords, Kmat, R, blas)
  IN [i \in 1..3 |-> FDiv(FMul(altitude, b[i]), b[1])]

compute_object_world_coords(coords, Kmat, R, altitude, blas) ==
  LET b == back_projected_ray(coords, Kmat, R, blas)
  IN [i \in 1..3 |-> FDiv(FMul(altitude, b[i]), b[3])]

\* Earth radius in meters.
EarthRadius == 6371000

\* The local variables of compute_object_gps_coords, each as the function
\* of the arguments that the assignment of the source gives it.

\* Line 102.
ground_dist(world) ==
  np_sqrt(FAdd(FMul(world[1], world[1]), FMul(world[2], world[2])))

\* Lines 107-108.
lat1_rad(gps) == np_radians(gps[1])

lon1_rad(gps) == np_radians(gps[2])

\* Line 113.
bearing_rad(world) == np_arctan2(world[2], world[1])

\* The angular distance ground_dist / R of lines 116-121.
angular_dist(world) == FDiv(ground_dist(world), FromInt(EarthRadius))

\* Lines 116-117.
lat2_rad(world, gps) ==
  np_arcsin(FAdd(FMul(np_sin(lat1_rad(gps)), np_cos(angular_dist(world))),
                 FMul(FMul(np_cos(lat1_rad(gps)), np_sin(angular_dist(world))),
                      np_cos(bearing_rad(world)))))

\* Lines 120-121.
lon2_rad(world, gps) ==
  FAdd(lon1_rad(gps),
       np_arctan2(FMul(FMul(np_sin(bearing_rad(world)), np_sin(angular_dist(world))),
                       np_cos(lat1_rad(gps))),
                  FSub(np_cos(angular_dist(world)),
                       FMul(np_sin(lat1_rad(gps)), np_sin(lat2_rad(world, gps))))))

\* compute_object_gps_coords returning the radians, not the degrees.
compute_object_gps_coords_radians(world, gps) ==
  <<lat1_rad(gps), lon1_rad(gps)>>

\* Lines 123-126: lat1 and lon1 are the degrees of lat1_rad and lon1_rad,
\* and they are what the function returns.
compute_object_gps_coords(world, gps) ==
  <<np_degrees(lat1_rad(gps)), np_degrees(lon1_rad(gps))>>

----------------------------------------------------------------------------
(* The program state: the inputs of one run, the position of the run and   *)
(* what each stage has produced.                                           *)

VARIABLES
  focal_length,         \* (f_x, f_y) in mm
  sensor_size,          \* (sensor_width, sensor_height) in mm
  image_size,           \* (W, H) in pixels
  object_image_coords,  \* (x_im, y_im)
  camera_altitude,
  alpha,                \* camera tilt in degrees
  camera_gps,           \* (lat0, lon0)
  blas,                 \* the BLAS the numpy build links
  pc,                   \* position of the run
  K,
  R_tilt,
  object_world_coords,
  object_gps,           \* (object_lat, object_lon)
  shown,                \* what st.success displays
  raised                \* the exception that ended the run

inputs == <<focal_length, sensor_size, image_size, object_image_coords,
            camera_altitude, alpha, camera_gps, blas>>

vars == <<focal_length, sensor_size, image_size, object_image_coords,
          camera_altitude, alpha, camera_gps, blas,
          pc, K, R_tilt, object_world_coords, object_gps, shown, raised>>

\* A value that has not been computed.
Unset == <<>>

Pair(a, b) == <<FromInt(a), FromInt(b)>>

FocalLengths == {Pair(4, 4), Pair(3, 5), Pair(0, 4)}

SensorSizes == {Pair(16, 16), <<Fl(173, 10), Fl(13, 1)>>, Pair(0, 16), Pair(-16, 16)}

ImageSizes == {<<16, 16>>, <<7, 5>>, <<0, 16>>, <<-8, 16>>}

Pixels == {<<8, 8>>, <<3, 2>>, <<5, 1>>}

Altitudes == {FromInt(3), FromInt(10), Zero, FromInt(-3)}

Alphas == {Zero, FromInt(30), FromInt(45), FromInt(90)}

CameraGps == {Pair(0, 0), <<Fl(377749, 10000), Fl(-1224194, 10000)>>}

WorldCoords ==
  {<<FromInt(x), FromInt(y), FromInt(z)>> :
     x \in {0, 1000000, -3000000}, y \in {0, 2000000, -500000}, z \in {3, -3, 0}}

GpsInputs ==
  {<<FromInt(la), FromInt(lo)>> : la \in {0, 37, -60, 90}, lo \in {0, -122, 179}}
    \cup CameraGps

Blas == {"reference", "optimised"}

\* The form of src/app.py filled in, before the button is pressed.
Init ==
  /\ focal_length \in FocalLengths
  /\ sensor_size \in SensorSizes
  /\ image_size \in ImageSizes
  /\ object_image_coords \in Pixels
  /\ camera_altitude \in Altitudes
  /\ alpha \in Alphas
  /\ camera_gps \in CameraGps
  /\ blas \in Blas
  /\ pc = "form"
  /\ K = Unset
  /\ R_tilt = Unset
  /\ object_world_coords = Unset
  /\ object_gps = Unset
  /\ shown = Unset
  /\ raised = "none"

\* STEP 1: compute camera intrinsics and the tilt matrix.
Step1 ==
  /\ pc = "form"
  /\ LET err == compute_K_raises(focal_length, sensor_size, image_size)
     IN IF err # "none"
        THEN /\ pc' = "raised"
             /\ raised' = err
             /\ UNCHANGED <<K, R_tilt>>
        ELSE /\ K' = compute_K(focal_length, sensor_size, image_size)
             /\ R_tilt' = compute_camera_rotation(alpha)
             /\ pc' = "step2"
             /\ UNCHANGED raised
  /\ UNCHANGED <<inputs, object_world_coords, object_gps, shown>>

\* STEP 2: compute the object coordinates in the world.
Step2 ==
  /\ pc = "step2"
  /\ LET err == compute_object_world_coords_raises(object_image_coords, K, R_tilt,
                                                   camera_altitude)
     IN IF err # "none"
        THEN /\ pc' = "raised"
             /\ raised' = err
             /\ UNCHANGED object_world_coords
        ELSE /\ object_world_coords' =
                  compute_object_world_coords(object_image_coords, K, R_tilt,
                                              camera_altitude, blas)
             /\ pc' = "step3"
             /\ UNCHANGED raised
  /\ UNCHANGED <<inputs, K, R_tilt, object_gps, shown>>

\* STEP 3: compute the GPS coordinates of the object.
Step3 ==
  /\ pc = "step3"
  /\ object_gps' = compute_object_gps_coords(object_world_coords, camera_gps)
  /\ pc' = "display"
  /\ UNCHANGED <<inputs, K, R_tilt, object_world_coords, shown, raised>>

\* st.success and the CSV download of the coordinates.
Display ==
  /\ pc = "display"
  /\ shown' = object_gps
  /\ pc' = "done"
  /\ UNCHANGED <<inputs, K, R_tilt, object_world_coords, object_gps, raised>>

Next == Step1 \/ Step2 \/ Step3 \/ Display

Spec == Init /\ [][Next]_vars

\* compute_object_gps_coords called on its own with any world offset.
InitGps ==
  /\ focal_length = Unset
  /\ sensor_size = Unset
  /\ image_size = Unset
  /\ object_image_coords = Unset
  /\ camera_altitude = Zero
  /\ alpha = Zero
  /\ camera_gps \in GpsInputs
  /\ blas = "reference"
  /\ pc = "step3"
  /\ K = Unset
  /\ R_tilt = Unset
  /\ object_world_coords \in WorldCoords
  /\ object_gps = Unset
  /\ shown = Unset
  /\ raised = "none"

NextGps == Step3 \/ Display

SpecGps == InitGps /\ [][NextGps]_vars

----------------------------------------------------------------------------
(* Properties *)

\* A stage has returned: its result is in the state.
Step1Returned == K # Unset
Step2Returned == object_world_coords # Unset
Step3Returned == object_gps # Unset

IsPos(a) == IsNum(a) /\ a.m > 0

PositiveCamera ==
  /\ focal_length # Unset /\ IsPos(focal_length[1]) /\ IsPos(focal_length[2])
  /\ IsPos(sensor_size[1]) /\ IsPos(sensor_size[2])
  /\ image_size[1] > 0 /\ image_size[2] > 0

\* m1 * 2^e1 <= m2 * 2^e2 for naturals m1, m2 below 2^(2 Precision + 1), exactly.
LeqScaled(m1, e1, m2, e2) ==
  LET e == IF e1 < e2 THEN e1 ELSE e2
  IN IF m1 = 0 THEN TRUE
     ELSE IF m2 = 0 THEN FALSE
     ELSE IF e1 - e2 > 2 * Precision + 2 THEN FALSE
     ELSE IF e2 - e1 > 2 * Precision + 2 THEN TRUE
     ELSE m1 * Pow2(e1 - e) <= m2 * Pow2(e2 - e)

\* |a - b| <= 2^(k - Precision) * |b| for finite a and b, exactly: a is b
\* up to 2^k units of roundoff.
Within(a, b, k) ==
  /\ IsNum(a) /\ IsNum(b)
  /\ \/ a = b
     \/ /\ a.m # 0 /\ b.m # 0
        /\ Abs(a.e - b.e) <= 2
        /\ LET e == IF a.e < b.e THEN a.e ELSE b.e
               da == a.m * Pow2(a.e - e)
               db == b.m * Pow2(b.e - e)
           IN Abs(da - db) * Pow2(Precision - k) <= Abs(db)

\* |x| <= 2^(k - Precision) * |c| * |n| / |d| for finite x, c, n, d, exactly.
SmallAgainst(x, c, n, d, k) ==
  /\ IsNum(x) /\ IsNum(c) /\ IsNum(n) /\ IsNum(d)
  /\ LeqScaled(Abs(x.m * d.m), x.e + d.e + Precision - k, Abs(c.m * n.m), c.e + n.e)

\* The back-projected ray of the run, defined once K is there and invertible.
ray == back_projected_ray(object_image_coords, K, R_tilt, blas)

Invertible == Step1Returned /\ linalg_inv_raises(K) = "none"

\* The pixel of the run is the principal point of K.
AtPrincipalPoint ==
  /\ FromInt(object_image_coords[1]) = K[1][3]
  /\ FromInt(object_image_coords[2]) = K[2][3]

Two == FromInt(2)
Four == FromInt(4)

\* The destination (lat2, lon2) of lines 116-121 in degrees.
Destination ==
  <<np_degrees(lat2_rad(object_world_coords, camera_gps)),
    np_degrees(lon2_rad(object_world_coords, camera_gps))>>

\* C1: once compute_object_gps_coords has returned, the pair it returned is
\* the destination (lat2, lon2) of the direct geodesic formula in degrees.
C1_ReturnsDestination == Step3Returned => object_gps = Destination

\* C2: when the back-projected ray has b[2] = 0, compute_object_world_coords
\* ends in a raised failure and returns no vector.
C2_HorizonRaises ==
  (Invertible /\ pc # "step2" /\ IsZero(ray[3]))
    => (raised # "none" /\ ~Step2Returned)

NonPositiveInput ==
  \/ ~IsPos(sensor_size[1]) \/ ~IsPos(sensor_size[2])
  \/ image_size[1] <= 0 \/ image_size[2] <= 0
  \/ ~IsPos(camera_altitude)

\* C3: with a sensor dimension, an image dimension or the altitude zero or
\* negative, no stage produces a value: no K, no world offset, no GPS pair.
C3_NonPositiveRejected ==
  NonPositiveInput => (~Step1Returned /\ ~Step2Returned /\ ~Step3Returned)

\* C4 as stated: for an altitude > 0 and a ray with b[2] # 0 the third
\* coordinate of the returned world offset equals camera_altitude.
C4_ThirdIsAltitudeExactly ==
  (Step2Returned /\ IsPos(camera_altitude) /\ ~IsZero(ray[3]))
    => object_world_coords[3] = camera_altitude

\* C4 amended: the third coordinate of the returned world offset equals
\* camera_altitude up to the roundoff of one multiplication and one
\* division (a relative error of at most 2^(2 - Precision)).
C4_ThirdIsAltitude ==
  (Step2Returned /\ IsPos(camera_altitude) /\ ~IsZero(ray[3]))
    => Within(object_world_coords[3], camera_altitude, 2)

C4_Witness ==
  /\ Step2Returned /\ IsPos(camera_altitude) /\ ~IsZero(ray[3])
  /\ PositiveCamera /\ alpha = FromInt(30)
  /\ object_world_coords[3] # camera_altitude

HalfFocal == <<FDiv(focal_length[1], Two), FDiv(focal_length[2], Two)>>
DoubleSensor == <<FMul(Two, sensor_size[1]), FMul(Two, sensor_size[2])>>

\* C5 as stated: twice the sensor size with half the focal length leaves
\* f_x and f_y unchanged.
C5_ScalingLeavesFocalUnchanged ==
  (Step1Returned /\ PositiveCamera)
    => LET K2 == compute_K(HalfFocal, DoubleSensor, image_size)
       IN K2[1][1] = K[1][1] /\ K2[2][2] = K[2][2]

\* C5 amended: twice the sensor size with half the focal length divides
\* f_x and f_y by four.
C5_ScalingQuartersFocal ==
  (Step1Returned /\ PositiveCamera)
    => LET K2 == compute_K(HalfFocal, DoubleSensor, image_size)
       IN FMul(Four, K2[1][1]) = K[1][1] /\ FMul(Four, K2[2][2]) = K[2][2]

C5_Witness ==
  /\ Step1Returned /\ PositiveCamera
  /\ focal_length[1] # focal_length[2]
  /\ compute_K(HalfFocal, DoubleSensor, image_size)[1][1] # K[1][1]

\* floor(n/2): the integer c with 2c <= n < 2c + 2.
HalfFloor(n) == CHOOSE c \in (-Abs(n))..Abs(n) : 2 * c <= n /\ n < 2 * c + 2

\* C6: for W, H > 0 compute_K returns the matrix with diagonal
\* (f_x_mm / w_mm * W, f_y_mm / h_mm * H, 1), principal point
\* (floor(W/2), floor(H/2)) and zeros at [0][1], [1][0], [2][0], [2][1].
C6_IntrinsicsMatrix ==
  (Step1Returned /\ image_size[1] > 0 /\ image_size[2] > 0)
    => /\ Len(K) = 3 /\ \A i \in 1..3 : Len(K[i]) = 3
       /\ K[1][1] = FMul(FDiv(focal_length[1], sensor_size[1]), FromInt(image_size[1]))
       /\ K[2][2] = FMul(FDiv(focal_length[2], sensor_size[2]), FromInt(image_size[2]))
       /\ K[3][3] = One
       /\ K[1][3] = FromInt(HalfFloor(image_size[1]))
       /\ K[2][3] = FromInt(HalfFloor(image_size[2]))
       /\ IsZero(K[1][2]) /\ IsZero(K[2][1]) /\ IsZero(K[3][1]) /\ IsZero(K[3][2])

C6_Witness ==
  /\ Step1Returned /\ image_size = <<7, 5>>
  /\ K[1][3] = FromInt(3) /\ K[2][3] = FromInt(2)
  /\ ~IsZero(K[1][1])

ZeroOffset == IsZero(object_world_coords[1]) /\ IsZero(object_world_coords[2])

\* C7 as stated: for a world offset (0, 0, z) compute_object_gps_coords
\* returns (lat0, lon0).
C7_ZeroOffsetReturnsCameraExactly ==
  (Step3Returned /\ ZeroOffset) => object_gps = camera_gps

\* C7 amended: for a world offset (0, 0, z) the returned pair is (lat0, lon0)
\* up to the roundoff of the conversion to radians and back (a relative
\* error of at most 2^(3 - Precision)), and it is the same for every z.
C7_ZeroOffsetReturnsCamera ==
  (Step3Returned /\ ZeroOffset)
    => /\ Within(object_gps[1], camera_gps[1], 3)
       /\ Within(object_gps[2], camera_gps[2], 3)
       /\ \A w \in WorldCoords :
            (IsZero(w[1]) /\ IsZero(w[2]))
              => compute_object_gps_coords(w, camera_gps) = object_gps

C7_Witness ==
  /\ Step3Returned /\ ZeroOffset
  /\ ~IsZero(object_world_coords[3])
  /\ object_gps # camera_gps

\* C8 as stated: the principal-point pixel with zero tilt and an altitude
\* > 0 projects to a world offset with x = y = 0 and z = camera_altitude.
C8_PrincipalPointProjectsToOriginExactly ==
  (Step2Returned /\ PositiveCamera /\ IsPos(camera_altitude)
     /\ IsZero(alpha) /\ AtPrincipalPoint)
    => /\ IsZero(object_world_coords[1]) /\ IsZero(object_world_coords[2])
       /\ object_world_coords[3] = camera_altitude

\* C8 amended: the principal-point pixel with zero tilt and an altitude > 0
\* projects to a world offset with z = camera_altitude and with x and y zero
\* up to roundoff: |x| <= 2^(2 - Precision) * camera_altitude * c_x / f_x,
\* and likewise for y.
C8_PrincipalPointProjectsToOrigin ==
  (Step2Returned /\ PositiveCamera /\ IsPos(camera_altitude)
     /\ IsZero(alpha) /\ AtPrincipalPoint)
    => /\ SmallAgainst(object_world_coords[1], camera_altitude, K[1][3], K[1][1], 2)
       /\ SmallAgainst(object_world_coords[2], camera_altitude, K[2][3], K[2][2], 2)
       /\ object_world_coords[3] = camera_altitude

C8_Witness ==
  /\ Step2Returned /\ PositiveCamera /\ IsPos(camera_altitude)
  /\ IsZero(alpha) /\ AtPrincipalPoint
  /\ ~IsZero(object_world_coords[1])

\* A stage meets a failure condition: K is singular, or the ray has b[2] = 0.
FailureMet ==
  /\ Step1Returned /\ pc # "step2"
  /\ (~Invertible \/ IsZero(ray[3]))

\* C10: when a stage meets a failure condition the run stops there: no
\* later stage executes and no GPS coordinate is returned or displayed.
C10_FailureStopsRun ==
  FailureMet => (pc = "raised" /\ ~Step3Returned /\ shown = Unset)

====
